---------------------------- MODULE Spec2Model ----------------------------
(***************************************************************************)
(* Model of aiven-tools' pg/schema_compare.py (snapshot gathering, the     *)
(* recursive dictionary diff, the relation-level diff, the difference      *)
(* count and the exit status) and of pg/pg_hba_resolver.py (update_hba).   *)
(*                                                                         *)
(* Encoding of Python values                                               *)
(*   None            [t |-> "None"]                                        *)
(*   a scalar        [t |-> "scalar", v |-> n]                             *)
(*   a dict          [t |-> "dict", d |-> f], f a function on its keys     *)
(* Dictionary keys are strings in the program; the model names a key by    *)
(* its rank in the lexicographic order of the strings, so that sorted()    *)
(* is the numeric order:                                                   *)
(*   relation "schema.table"   rank (schema-1)*MaxTables + table           *)
(*   object key "Topic 'name'" rank (topic-1)*MaxNames + name, with        *)
(*                             Column < Constraint < Index                 *)
(*   property name             rank in 1..MaxProps                         *)
(* An output line is a record [pfx, path, args, rec]: the literal prefix   *)
(* of the format string, the items joined into the description, the extra  *)
(* format arguments, and (rec) which kind of change record the yield       *)
(* statement stands for, taken from the branch that emitted it.            *)
(***************************************************************************)
EXTENDS Integers, Sequences, FiniteSets, TLC

\* ------------------------------------------------------------------ bounds
MaxSchemas == 2
MaxTables == 1
MaxNames == 1
MaxProps == 2
MaxVal == 2
MaxNodes == 3

\* ------------------------------------------------------- python values
PyNone == [t |-> "None"]
Scalar(x) == [t |-> "scalar", v |-> x]
Dict(f) == [t |-> "dict", d |-> f]
isdict(x) == x.t = "dict"

\* dict.get(item): the value, or None when the key is absent
\* (variant: a lookup that tells an absent key from None)
get_sentinel(dct, item) == IF item \in DOMAIN dct THEN dct[item] ELSE [t |-> "missing"]
get(dct, item) == IF item \in DOMAIN dct THEN dct[item] ELSE PyNone

EmptyDict == [k \in {} |-> PyNone]

\* sorted(iterable of keys): the ascending sequence of the keys
RECURSIVE sorted(_)
sorted(S) ==
    IF S = {} THEN << >>
    ELSE LET m == CHOOSE x \in S : \A y \in S : x <= y
         IN << m >> \o sorted(S \ {m})

\* ------------------------------------------------------------ universe
Schemas == 1..MaxSchemas
RelNames == 1..(MaxSchemas * MaxTables)
SchemaOf(rel) == ((rel - 1) \div MaxTables) + 1

Topics == <<"Column", "Constraint", "Index">>
ObjKeys == 1..(Len(Topics) * MaxNames)
TopicOf(key) == Topics[((key - 1) \div MaxNames) + 1]

Props == 1..MaxProps
Vals == 1..MaxVal

\* --------------------------------------------------- sizes of the inputs
RECURSIVE SumOver(_, _)
SumOver(f, S) ==
    IF S = {} THEN 0
    ELSE LET x == CHOOSE y \in S : TRUE
         IN f[x] + SumOver(f, S \ {x})

SmallSubsets(S, n) == {T \in SUBSET S : Cardinality(T) <= n}

\* A property bag: property -> scalar or None, at most n properties.
BagVals == {PyNone} \cup {Scalar(v) : v \in Vals}
BagsUpTo(n) == UNION {[S -> BagVals] : S \in SmallSubsets(Props, n)}

\* The value under an object key: a property bag or None; it counts one
\* node plus one per property.
ObjNodes(x) == IF isdict(x) THEN 1 + Cardinality(DOMAIN x.d) ELSE 1
ObjValsUpTo(n) == {PyNone} \cup {Dict(bag) : bag \in BagsUpTo(n - 1)}

\* One relation: object key -> value, at most n nodes in all.
MapNodes(m) == SumOver([k \in DOMAIN m |-> ObjNodes(m[k])], DOMAIN m)
ObjMapsUpTo(n) ==
    UNION {{m \in [S -> ObjValsUpTo(n - Cardinality(S) + 1)] : MapNodes(m) <= n}
           : S \in SmallSubsets(ObjKeys, n)}

\* "rels": relation -> object map, at most n nodes in all.
RelsNodes(r) == SumOver([k \in DOMAIN r |-> 1 + MapNodes(r[k].d)], DOMAIN r)
RelsUpTo(n) ==
    UNION {{r \in [S -> {Dict(m) : m \in ObjMapsUpTo(n - Cardinality(S))}] :
                RelsNodes(r) <= n}
           : S \in SmallSubsets(RelNames, n)}

Range(s) == {s[i] : i \in DOMAIN s}

\* A saved schema dump: a JSON document of the shape save_schema writes,
\* with "rels", "dsn" and the sorted "partitions" list.  compare loads
\* whatever document the file holds, so the dumps range over every document
\* of that shape, null values included; each listed partition counts one
\* node.
SavedDumps ==
    UNION {{[rels |-> r, dsn |-> "saved", partitions |-> sorted(P)] :
                r \in RelsUpTo(MaxNodes - Cardinality(P))}
           : P \in SmallSubsets(RelNames, MaxNodes)}

\* A live catalog, as the queries of gather_data see it:
\*   tables[table][key]  the row of information_schema.columns for a Column
\*                       key (every property present, NULL read as None),
\*                       the row {definition} of pg_indexes / pg_constraint
\*                       for an Index / Constraint key
\*   inherits            the relations pg_inherits lists as children
definition == 1
RowOf(key, bag) ==
    IF TopicOf(key) = "Column"
    THEN [p \in Props |-> IF p \in DOMAIN bag THEN bag[p] ELSE PyNone]
    ELSE [p \in {definition} |-> IF p \in DOMAIN bag THEN bag[p] ELSE PyNone]
IsRowSource(r) ==
    \A t \in DOMAIN r : \A k \in DOMAIN r[t].d :
        /\ isdict(r[t].d[k])
        /\ \A p \in DOMAIN r[t].d[k].d : r[t].d[k].d[p] # PyNone
        /\ TopicOf(k) # "Column" => DOMAIN r[t].d[k].d \subseteq {definition}
RowsOf(r) ==
    [t \in DOMAIN r |-> [k \in DOMAIN r[t].d |-> RowOf(k, r[t].d[k].d)]]
Catalogs ==
    UNION {{[tables |-> RowsOf(r), dsn |-> "live", inherits |-> P] :
                r \in {x \in RelsUpTo(MaxNodes - Cardinality(P)) : IsRowSource(x)}}
           : P \in SmallSubsets(RelNames, MaxNodes)}

\* What a connection string names: an existing file holding a saved dump, or
\* a database to connect to.
Sources ==
    {[kind |-> "file", info |-> i] : i \in SavedDumps}
        \cup {[kind |-> "db", db |-> c] : c \in Catalogs}

\* ------------------------------------------------------------ compare_dicts
Line(pfx, path, args, rec) == [pfx |-> pfx, path |-> path, args |-> args, rec |-> rec]

\* dict.popitem() on a dict of length 1: the only (key, value) pair
OnlyKey(dct) == CHOOSE k \in DOMAIN dct : TRUE
Show(x) == IF x.t = "scalar" THEN x.v ELSE x.t

\* One iteration of the loop body for an item not seen before.  st holds the
\* lines yielded so far and the two dictionaries as the iteration left them
\* (popitem() empties a one-entry child in place).
RECURSIVE compare_dicts(_, _, _)
compare_item(st, item, path) ==
    LET a_value == get(st.a, item)
        b_value == get(st.b, item)
        itempath == Append(path, item)
    IN  IF a_value = b_value THEN st
        ELSE IF b_value = PyNone THEN
            IF isdict(a_value) /\ Cardinality(DOMAIN a_value.d) = 1
            THEN LET k == OnlyKey(a_value.d)
                 IN [out |-> Append(st.out,
                                Line("-", itempath, <<k, Show(a_value.d[k])>>, "Removed")),
                     a |-> [st.a EXCEPT ![item] = Dict(EmptyDict)],
                     b |-> st.b]
            ELSE [st EXCEPT !.out = Append(@, Line("-", itempath, << >>, "Removed"))]
        ELSE IF a_value = PyNone THEN
            IF isdict(b_value) /\ Cardinality(DOMAIN b_value.d) = 1
            THEN LET k == OnlyKey(b_value.d)
                 IN [out |-> Append(st.out,
                                Line("+", itempath, <<k, Show(b_value.d[k])>>, "Added")),
                     a |-> st.a,
                     b |-> [st.b EXCEPT ![item] = Dict(EmptyDict)]]
            ELSE [st EXCEPT !.out = Append(@, Line("+", itempath, << >>, "Added"))]
        ELSE IF ~isdict(a_value) \/ ~isdict(b_value) THEN
            [st EXCEPT !.out = @ \o
                << Line("-", itempath, <<Show(a_value)>>, "Changed"),
                   Line("+", itempath, <<Show(b_value)>>, "ChangedTo") >>]
        ELSE LET r == compare_dicts(a_value.d, b_value.d, itempath)
             IN [out |-> st.out \o r.out,
                 a |-> [st.a EXCEPT ![item] = Dict(r.a)],
                 b |-> [st.b EXCEPT ![item] = Dict(r.b)]]

\* for item in sorted(a) + sorted(b): skip the items already seen
RECURSIVE compare_loop(_, _, _, _, _)
compare_loop(st, items, i, seen_items, path) ==
    IF i > Len(items) THEN st
    ELSE IF items[i] \in seen_items
         THEN compare_loop(st, items, i + 1, seen_items, path)
         ELSE compare_loop(compare_item(st, items[i], path), items, i + 1,
                           seen_items \cup {items[i]}, path)

\* The order in which compare_dicts visits the keys
\* (variant: the keys of each side visited in descending order)
RECURSIVE reversed(_)
reversed(s) == IF s = << >> THEN << >> ELSE Append(reversed(Tail(s)), Head(s))
dict_items_reversed(a, b) == reversed(sorted(DOMAIN a)) \o reversed(sorted(DOMAIN b))
dict_items(a, b) == sorted(DOMAIN a) \o sorted(DOMAIN b)

\* compare_dicts(a, b, path) run to completion: the lines it yields and the
\* two dictionaries afterwards.
compare_dicts(a, b, path) ==
    compare_loop([out |-> << >>, a |-> a, b |-> b], dict_items(a, b), 1, {}, path)

\* ------------------------------------------------------------- gather_data
\* ignored_properties: the bookkeeping columns of information_schema.columns;
\* the last property rank stands for them.
ignored_properties == {MaxProps}

\* if not schemas: every schema of the database
gather_schemas(schemas) == IF schemas = {} THEN Schemas ELSE schemas

\* parts: the children pg_inherits lists, or the empty set
gather_parts(db, ignore_partitions) ==
    IF ignore_partitions THEN db.inherits ELSE {}

\* The entry the column loop leaves under a Column key: the properties that
\* are neither ignored nor None
column_entry(row) ==
    [p \in {q \in DOMAIN row : q \notin ignored_properties /\ row[q] # PyNone}
        |-> row[p]]

\* The keys gather_data creates for one table: a Column key once one of its
\* properties is kept (setdefault runs inside the property loop), an Index or
\* Constraint key for every row gather_query_data fetches.
gathered_keys(rows) ==
    {k \in DOMAIN rows :
        TopicOf(k) = "Column" => DOMAIN column_entry(rows[k]) # {}}

\* gather_query_data: key_target.update(row) keeps every column of the row
gathered_entry(key, row) ==
    IF TopicOf(key) = "Column" THEN column_entry(row) ELSE row

gather_data(db, schemas, ignore_partitions) ==
    LET parts == gather_parts(db, ignore_partitions)
        tables == {t \in DOMAIN db.tables :
                      /\ SchemaOf(t) \in gather_schemas(schemas)
                      /\ t \notin parts
                      /\ gathered_keys(db.tables[t]) # {}}
    IN  [rels |-> [t \in tables |->
                      Dict([k \in gathered_keys(db.tables[t]) |->
                               Dict(gathered_entry(k, db.tables[t][k]))])],
         dsn |-> db.dsn,
         partitions |-> sorted(parts)]

\* ---------------------------------------------------------- compare_schema
\* The relation names compare_schema walks through
\* (variant: only the partitions of the first snapshot are left out)
all_rel_names_first_only(a_info, b_info, schemas, ignore_partitions) ==
    LET names == DOMAIN a_info.rels \cup DOMAIN b_info.rels
        kept == IF ignore_partitions THEN names \ Range(a_info.partitions) ELSE names
    IN  IF schemas # {}
        THEN {name \in kept : \E schema \in schemas : SchemaOf(name) = schema}
        ELSE kept
all_rel_names(a_info, b_info, schemas, ignore_partitions) ==
    LET names == DOMAIN a_info.rels \cup DOMAIN b_info.rels
        kept == IF ignore_partitions
                THEN (names \ Range(a_info.partitions)) \ Range(b_info.partitions)
                ELSE names
    IN  IF schemas # {}
        THEN {name \in kept : \E schema \in schemas : SchemaOf(name) = schema}
        ELSE kept

\* The order in which the relations are visited
rel_order(names) == sorted(names)

\* a_rels.get(rel) == b_rels.get(rel)
\* (variant: "is" in place of "==": two loaded dicts are never the same object)
rel_same_identity(a_rels, b_rels, rel) ==
    rel \notin DOMAIN a_rels /\ rel \notin DOMAIN b_rels
rel_same(a_rels, b_rels, rel) == get(a_rels, rel) = get(b_rels, rel)

\* One iteration of "for rel in sorted(all_rel_names)"
schema_rel(st, rel) ==
    IF rel_same(st.a, st.b, rel) THEN st
    ELSE LET hdr == Append(st.out, Line("@@ Relation ", <<rel>>, << >>, "none"))
         IN  IF rel \notin DOMAIN st.a
             THEN [st EXCEPT !.out = Append(hdr, Line("+Relation ", <<rel>>, << >>, "Added"))]
             ELSE IF rel \notin DOMAIN st.b
             THEN [st EXCEPT !.out = Append(hdr, Line("+Relation ", <<rel>>, << >>, "Removed"))]
             ELSE LET r == compare_dicts(st.a[rel].d, st.b[rel].d, << >>)
                  IN [out |-> hdr \o r.out,
                      a |-> [st.a EXCEPT ![rel] = Dict(r.a)],
                      b |-> [st.b EXCEPT ![rel] = Dict(r.b)]]

RECURSIVE schema_loop(_, _, _)
schema_loop(st, rels, i) ==
    IF i > Len(rels) THEN st
    ELSE schema_loop(schema_rel(st, rels[i]), rels, i + 1)

\* compare_schema run to completion: the lines it yields, and the "rels" of
\* the two snapshots afterwards
compare_schema(a_info, b_info, schemas, ignore_partitions) ==
    schema_loop([out |-> << Line("--- ", << >>, <<a_info.dsn>>, "none"),
                            Line("+++ ", << >>, <<b_info.dsn>>, "none") >>,
                 a |-> a_info.rels, b |-> b_info.rels],
                rel_order(all_rel_names(a_info, b_info, schemas, ignore_partitions)), 1)

\* ------------------------------------------------------------ compare, main
\* issue.startswith("@@"): change lines start with "-" or "+", so only the
\* relation headers do
startswith_atat(issue) == issue.pfx = "@@ Relation "

\* count after the loop over the issues
\* (variant: every issue counted)
count_every_issue(issues) == Len(issues)
RECURSIVE count_issues(_)
count_issues(issues) ==
    IF issues = << >> THEN 0
    ELSE (IF startswith_atat(Head(issues)) THEN 1 ELSE 0) + count_issues(Tail(issues))

\* return 1 if diffs else 0
exit_status(diffs) == IF diffs # 0 THEN 1 ELSE 0


\* ========================================================== pg_hba_resolver
MaxHosts == 2
MaxAddrs == 2
MaxLines == 3
MaxRuns == 2

Hosts == 1..MaxHosts
Addrs == 1..MaxAddrs

\* A line of pg_hba.conf, by what update_hba can tell about it:
\*   template  "# host... <hostname> ...  # RESOLVE"   (template_re matches)
\*   entry     a line ending in " # RESOLVED: <hostname>", for address addr
\*   other     any other line
\* A line update_hba writes starts with "host", so template_re never matches
\* it; a hostname holds no white space, so a line ends with the comment of
\* one hostname only.  Hostnames ending in "#RESOLVE", for which a template
\* line could also end with a host comment, are left out.
TemplateLine(h) == [kind |-> "template", host |-> h, addr |-> 0]
EntryLine(h, a) == [kind |-> "entry", host |-> h, addr |-> a]
OtherLine == [kind |-> "other", host |-> 0, addr |-> 0]
HbaLines ==
    {TemplateLine(h) : h \in Hosts}
        \cup {EntryLine(h, a) : h \in Hosts, a \in Addrs}
        \cup {OtherLine}
HbaFiles == UNION {[1..n -> HbaLines] : n \in 0..MaxLines}

\* What getaddrinfo answers for a name: its addresses, sorted; none when the
\* lookup fails (socket.gaierror)
DnsAnswers == {sorted(S) : S \in SUBSET Addrs}

\* last_host_comment is None (0) or " # RESOLVED: <hostname>"
\* if last_host_comment and line.endswith(last_host_comment)
\* (variant: no previous entry is dropped)
keeps_every_line(last_host_comment, line) == FALSE
drops_line(last_host_comment, line) ==
    /\ last_host_comment # 0
    /\ line.kind = "entry"
    /\ line.host = last_host_comment

\* entry.replace(hostname, addr + "/32") + last_host_comment, for each address
RECURSIVE resolved_entries(_, _)
resolved_entries(hostname, addrs) ==
    IF addrs = << >> THEN << >>
    ELSE << EntryLine(hostname, Head(addrs)) >> \o resolved_entries(hostname, Tail(addrs))

\* The loop of update_hba over orig_hba[i..]; st holds new_hba,
\* last_host_comment and the names looked up (the keys of addrmap)
RECURSIVE hba_loop(_, _, _, _)
hba_loop(st, orig_hba, i, answers) ==
    IF i > Len(orig_hba) THEN st
    ELSE LET line == orig_hba[i]
         IN  IF drops_line(st.last_host_comment, line)
             THEN hba_loop(st, orig_hba, i + 1, answers)
             ELSE IF line.kind # "template"
             THEN hba_loop([st EXCEPT !.new_hba = Append(@, line)],
                           orig_hba, i + 1, answers)
             ELSE hba_loop([new_hba |-> Append(st.new_hba, line)
                                           \o resolved_entries(line.host, answers[line.host]),
                            last_host_comment |-> line.host,
                            addrmap |-> st.addrmap \cup {line.host}],
                           orig_hba, i + 1, answers)

rebuild_hba(orig_hba, answers) ==
    hba_loop([new_hba |-> << >>, last_host_comment |-> 0, addrmap |-> {}],
             orig_hba, 1, answers)

VARIABLES
    hba_file,     \* the lines of pg_hba.conf
    dns,          \* what each name resolves to now
    pid_file,     \* postmaster.pid exists
    runs,         \* the runs of update_hba so far
    run_dns,      \* the answers the last run got
    same_dns,     \* the last two runs got the same answers
    orig_hba,     \* the last run: the lines it read
    new_hba,      \* the last run: the lines it computed
    rewrote,      \* the last run wrote the file
    sighup,       \* the last run sent SIGHUP to the postmaster
    rewrites,     \* the runs that wrote the file
    sighups       \* the SIGHUPs sent

hba_vars == <<hba_file, dns, pid_file, runs, run_dns, same_dns, orig_hba, new_hba,
              rewrote, sighup, rewrites, sighups>>

VARIABLES
    conn_strs,          \* <<connection_string_1, connection_string_2>>: what each names
    schemas,            \* --schema (the empty set: not given)
    ignore_partitions,  \* --ignore-partitions
    infos,              \* compare: the snapshots loaded so far
    out,                \* the lines printed
    count,              \* compare: count
    status,             \* the value main returns
    pc                  \* "load", "diff", "return", "exit"

cmp_vars == <<conn_strs, schemas, ignore_partitions, infos, out, count, status, pc>>
vars == <<cmp_vars, hba_vars>>

\* No run of update_hba: pg_hba_resolver is a separate program
HbaIdle ==
    /\ hba_file = << >> /\ dns = [h \in Hosts |-> << >>] /\ pid_file = FALSE
    /\ runs = 0 /\ run_dns = dns /\ same_dns = FALSE
    /\ orig_hba = << >> /\ new_hba = << >>
    /\ rewrote = FALSE /\ sighup = FALSE /\ rewrites = 0 /\ sighups = 0

Init ==
    /\ HbaIdle
    /\ conn_strs \in Sources \X Sources
    /\ schemas \in {{}, {1}}
    /\ ignore_partitions \in BOOLEAN
    /\ infos = << >>
    /\ out = << >>
    /\ count = 0
    /\ status = -1
    /\ pc = "load"

\* compare: os.path.exists(conn_str), the saved dump is read
LoadDump ==
    /\ pc = "load"
    /\ conn_strs[Len(infos) + 1].kind = "file"
    /\ infos' = Append(infos, conn_strs[Len(infos) + 1].info)
    /\ pc' = IF Len(infos') = 2 THEN "diff" ELSE "load"
    /\ UNCHANGED <<conn_strs, schemas, ignore_partitions, out, count, status, hba_vars>>

\* compare: otherwise new data is gathered over a connection
GatherNew ==
    /\ pc = "load"
    /\ conn_strs[Len(infos) + 1].kind = "db"
    /\ infos' = Append(infos, gather_data(conn_strs[Len(infos) + 1].db,
                                          schemas, ignore_partitions))
    /\ pc' = IF Len(infos') = 2 THEN "diff" ELSE "load"
    /\ UNCHANGED <<conn_strs, schemas, ignore_partitions, out, count, status, hba_vars>>

\* compare: the loop over compare_schema's issues, which prints each issue
\* and counts the relation headers; the summary line prints count.  The
\* generator is consumed to its end, so the snapshots are left as
\* compare_dicts leaves them.
CompareIssues ==
    /\ pc = "diff"
    /\ LET r == compare_schema(infos[1], infos[2], schemas, ignore_partitions)
       IN  /\ out' = r.out
           /\ count' = count_issues(r.out)
           /\ infos' = << [infos[1] EXCEPT !.rels = r.a],
                          [infos[2] EXCEPT !.rels = r.b] >>
    /\ pc' = "return"
    /\ UNCHANGED <<conn_strs, schemas, ignore_partitions, status, hba_vars>>

\* main: return 1 if diffs else 0
MainReturn ==
    /\ pc = "return"
    /\ status' = exit_status(count)
    /\ pc' = "exit"
    /\ UNCHANGED <<conn_strs, schemas, ignore_partitions, infos, out, count, hba_vars>>

Next == LoadDump \/ GatherNew \/ CompareIssues \/ MainReturn

Spec == Init /\ [][Next]_vars


\* ------------------------------------------- the runs of pg_hba_resolver
\* schema_compare does not run
CmpIdle ==
    /\ conn_strs = << >> /\ schemas = {} /\ ignore_partitions = FALSE
    /\ infos = << >> /\ out = << >> /\ count = 0 /\ status = -1 /\ pc = "idle"

InitHba ==
    /\ CmpIdle
    /\ hba_file \in HbaFiles
    /\ dns \in [Hosts -> DnsAnswers]
    /\ pid_file \in BOOLEAN
    /\ runs = 0 /\ run_dns = dns /\ same_dns = FALSE
    /\ orig_hba = << >> /\ new_hba = << >>
    /\ rewrote = FALSE /\ sighup = FALSE /\ rewrites = 0 /\ sighups = 0

\* update_hba, when new_hba == orig_hba: nothing is written
UpdateNoChange ==
    /\ runs < MaxRuns
    /\ LET r == rebuild_hba(hba_file, dns)
       IN  /\ r.new_hba = hba_file
           /\ new_hba' = r.new_hba
    /\ orig_hba' = hba_file
    /\ rewrote' = FALSE /\ sighup' = FALSE
    /\ runs' = runs + 1
    /\ run_dns' = dns
    /\ same_dns' = (runs >= 1 /\ run_dns = dns)
    /\ UNCHANGED <<hba_file, dns, pid_file, rewrites, sighups, cmp_vars>>

\* update_hba, when the lines changed: the file is written, and the
\* postmaster is sent SIGHUP if postmaster.pid exists
UpdateRewrite ==
    /\ runs < MaxRuns
    /\ LET r == rebuild_hba(hba_file, dns)
       IN  /\ r.new_hba # hba_file
           /\ new_hba' = r.new_hba
           /\ hba_file' = r.new_hba
    /\ orig_hba' = hba_file
    /\ rewrote' = TRUE
    /\ rewrites' = rewrites + 1
    /\ sighup' = pid_file
    /\ sighups' = IF pid_file THEN sighups + 1 ELSE sighups
    /\ runs' = runs + 1
    /\ run_dns' = dns
    /\ same_dns' = (runs >= 1 /\ run_dns = dns)
    /\ UNCHANGED <<dns, pid_file, cmp_vars>>

\* Between two runs the names come to resolve to other addresses
DnsChange ==
    /\ runs >= 1 /\ runs < MaxRuns
    /\ \E h \in Hosts : \E ans \in DnsAnswers :
          /\ ans # dns[h]
          /\ dns' = [dns EXCEPT ![h] = ans]
    /\ UNCHANGED <<hba_file, pid_file, runs, run_dns, same_dns, orig_hba, new_hba,
                   rewrote, sighup, rewrites, sighups, cmp_vars>>

NextHba == UpdateNoChange \/ UpdateRewrite \/ DnsChange

SpecHba == InitHba /\ [][NextHba]_vars

\* ===================================================================== claims
\* The value a dictionary holds for a key, None when it holds none
ValueAt(dct, k) == IF k \in DOMAIN dct THEN dct[k] ELSE PyNone

\* The snapshot compare() loads for the i-th connection string
Before(i) ==
    IF conn_strs[i].kind = "file"
    THEN conn_strs[i].info
    ELSE gather_data(conn_strs[i].db, schemas, ignore_partitions)

Compared == pc \in {"return", "exit"}

IsRecord(line) == line.rec \in {"Added", "Removed", "Changed"}
NumRecords(lines) == Cardinality({i \in DOMAIN lines : IsRecord(lines[i])})
Headers(lines) == {i \in DOMAIN lines : lines[i].pfx = "@@ Relation "}

\* The relation whose section of the output line i is in (0: before any)
RECURSIVE SectionRel(_, _)
SectionRel(lines, i) ==
    IF i = 0 THEN 0
    ELSE IF lines[i].pfx = "@@ Relation " THEN lines[i].path[1]
    ELSE SectionRel(lines, i - 1)

\* The relations whose loaded contents differ, among those compared
Differing ==
    {rel \in all_rel_names(Before(1), Before(2), schemas, ignore_partitions) :
        ValueAt(Before(1).rels, rel) # ValueAt(Before(2).rels, rel)}

\* C1 -- Reflexivity: comparing a snapshot with itself emits no change
\* record: compare_dicts(S, S) yields nothing at the level of the relations
\* and of each relation's objects, compare_schema(S, S) yields only the two
\* header lines, and a run of compare over two equal snapshots prints only
\* the headers and counts 0.
C1_Reflexivity ==
    /\ \A i \in DOMAIN infos :
          /\ compare_dicts(infos[i].rels, infos[i].rels, << >>).out = << >>
          /\ \A rel \in DOMAIN infos[i].rels :
                compare_dicts(infos[i].rels[rel].d, infos[i].rels[rel].d, << >>).out = << >>
          /\ LET o == compare_schema(infos[i], infos[i], schemas, ignore_partitions).out
             IN  Len(o) = 2 /\ Headers(o) = {} /\ count_issues(o) = 0
    /\ (Compared /\ Before(1).rels = Before(2).rels) =>
          /\ Len(out) = 2
          /\ out[1].pfx = "--- " /\ out[2].pfx = "+++ "
          /\ count = 0

C1_Witness ==
    /\ pc = "exit"
    /\ Before(1).rels = Before(2).rels
    /\ \E rel \in DOMAIN Before(1).rels : \E k \in DOMAIN Before(1).rels[rel].d :
          /\ isdict(Before(1).rels[rel].d[k])
          /\ DOMAIN Before(1).rels[rel].d[k].d # {}
    /\ rel_order(all_rel_names(infos[1], infos[2], schemas, ignore_partitions)) # << >>
    /\ Len(out) = 2

\* The sign a line starts with
Sign(line) ==
    IF line.pfx \in {"-", "-Relation ", "--- "} THEN "-"
    ELSE IF line.pfx \in {"+", "+Relation ", "+++ "} THEN "+"
    ELSE "@"
Flip(sign) == IF sign = "-" THEN "+" ELSE IF sign = "+" THEN "-" ELSE sign

\* The change lines of an output, each with the relation section it is in
ChangeLines(lines) ==
    {<<SectionRel(lines, i), Sign(lines[i]), lines[i].path, lines[i].args>> :
        i \in {j \in DOMAIN lines : lines[j].rec \in {"Added", "Removed"}}}

\* C2 -- the Added/Removed label depends only on which side lacks the key: a
\* key present only in A gives a '-' line (Removed), a key present only in B
\* a '+' line (Added), at the level of relations, objects and properties, so
\* that comparing (B, A) gives the Added/Removed lines of (A, B) with every
\* sign flipped.
C2_LabelBySide ==
    Compared =>
        /\ \A i \in DOMAIN out :
              /\ out[i].rec = "Removed" => Sign(out[i]) = "-"
              /\ out[i].rec = "Added" => Sign(out[i]) = "+"
        /\ \A rel \in DOMAIN Before(1).rels \ DOMAIN Before(2).rels :
              rel \in all_rel_names(Before(1), Before(2), schemas, ignore_partitions)
                  => \E i \in DOMAIN out :
                        Sign(out[i]) = "-" /\ out[i].path = <<rel>> /\ out[i].rec # "none"
        /\ ChangeLines(compare_schema(Before(2), Before(1), schemas, ignore_partitions).out)
              = {<<l[1], Flip(l[2]), l[3], l[4]>> : l \in ChangeLines(out)}

\* C3 -- the diff leaves its inputs unchanged: after the comparison both
\* snapshots equal the snapshots that were loaded, and a second run on the
\* same two snapshot objects yields the same lines.
C3_InputsUnchanged ==
    Compared =>
        /\ infos = <<Before(1), Before(2)>>
        /\ compare_schema(infos[1], infos[2], schemas, ignore_partitions).out = out

\* The relations some line of the output is about
RelsInOutput == {SectionRel(out, i) : i \in DOMAIN out} \ {0}
Excluded == Range(Before(1).partitions) \cup Range(Before(2).partitions)

\* C4 (as stated) -- a relation listed in the "partitions" of either
\* snapshot contributes no line to the output, whatever the options.
C4_ExclusionAlways ==
    Compared => RelsInOutput \cap Excluded = {}

\* C4 (amended) -- when compare runs with --ignore-partitions, a relation
\* listed in the "partitions" of either snapshot contributes no line, even
\* if its contents differ or it is present on one side only.
C4_ExclusionWhenIgnoring ==
    (Compared /\ ignore_partitions) => RelsInOutput \cap Excluded = {}

C4_Witness ==
    /\ pc = "exit"
    /\ ignore_partitions
    /\ \E rel \in Range(Before(2).partitions) \ Range(Before(1).partitions) :
          /\ rel \in DOMAIN Before(1).rels
          /\ ValueAt(Before(1).rels, rel) # ValueAt(Before(2).rels, rel)
          /\ schemas # {} => SchemaOf(rel) \in schemas
          /\ rel \notin RelsInOutput

\* NullStrip(d): d without the keys whose value is None, at every level
RECURSIVE NullStrip(_)
NullStrip(dct) ==
    [k \in {x \in DOMAIN dct : dct[x] # PyNone} |->
        IF isdict(dct[k]) THEN Dict(NullStrip(dct[k].d)) ELSE dct[k]]

\* C5 -- Null-dropping: two mappings that differ only in keys that hold None
\* on one side and are absent on the other, at any nesting level, compare
\* without a change record; and in any comparison no line is about a key
\* that is None on one side and absent on the other.
C5_NullDropping ==
    Len(infos) = 2 =>
        /\ NullStrip(infos[1].rels) = NullStrip(infos[2].rels)
              => compare_dicts(infos[1].rels, infos[2].rels, << >>).out = << >>
        /\ \A rel \in DOMAIN infos[1].rels \cap DOMAIN infos[2].rels :
              LET a == infos[1].rels[rel].d
                  b == infos[2].rels[rel].d
                  o == compare_dicts(a, b, << >>).out
              IN  /\ NullStrip(a) = NullStrip(b) => o = << >>
                  /\ \A k \in DOMAIN a \cup DOMAIN b :
                        (ValueAt(a, k) = PyNone /\ ValueAt(b, k) = PyNone)
                            => \A i \in DOMAIN o : o[i].path[1] # k

C5_Witness ==
    /\ pc = "diff"
    /\ \E rel \in DOMAIN infos[1].rels \cap DOMAIN infos[2].rels :
          LET a == infos[1].rels[rel].d
              b == infos[2].rels[rel].d
          IN  /\ a # b
              /\ NullStrip(a) = NullStrip(b)
              /\ \E k \in DOMAIN a \cap DOMAIN b :
                    isdict(a[k]) /\ isdict(b[k]) /\ DOMAIN a[k].d # DOMAIN b[k].d
              /\ compare_dicts(a, b, << >>).out = << >>

\* C6 (as stated) -- the count compare returns equals the number of change
\* records (Added, Removed, Changed) rendered.
C6_CountIsRecords ==
    Compared => count = NumRecords(out)

\* C6 (amended) -- the count compare returns equals the number of
\* "@@ Relation" header lines printed, which is the number of compared
\* relations whose contents differ between the two snapshots.
C6_CountIsRelations ==
    Compared =>
        /\ count = Cardinality(Headers(out))
        /\ count = Cardinality(Differing)

C6_Witness ==
    /\ pc = "exit"
    /\ count = 1
    /\ NumRecords(out) = 2

\* C7 -- exit status: main returns 0 exactly when no change record is
\* emitted and 1 exactly when at least one is; every "@@ Relation" header
\* is followed by at least one change record.
C7_ExitStatus ==
    pc = "exit" =>
        /\ status = 0 <=> NumRecords(out) = 0
        /\ status = 1 <=> NumRecords(out) >= 1
        /\ \A i \in Headers(out) : i < Len(out) /\ IsRecord(out[i + 1])

\* The mapping of snapshot A that the keys of one level of the output come
\* from: the relation's objects, or the dictionary under path
RECURSIVE At(_, _)
At(dct, path) == IF path = << >> THEN dct ELSE At(dct[Head(path)].d, Tail(path))
Front(path) == SubSeq(path, 1, Len(path) - 1)
Last(path) == path[Len(path)]

\* Lines i and j are records of the same kind emitted by one level of
\* compare_dicts: same relation section, same parent path
SameLevel(i, j) ==
    /\ out[i].pfx \in {"-", "+"} /\ out[j].pfx \in {"-", "+"}
    /\ IsRecord(out[i]) /\ out[i].rec = out[j].rec
    /\ SectionRel(out, i) = SectionRel(out, j)
    /\ Front(out[i].path) = Front(out[j].path)

RelationsAscending ==
    \A i, j \in Headers(out) : i < j => out[i].path[1] < out[j].path[1]

TemplateHosts(lines) == {lines[i].host : i \in {j \in DOMAIN lines : lines[j].kind = "template"}}

\* C9 -- after update_hba, for every hostname on a "# RESOLVE" template line
\* the file holds no line ending in "# RESOLVED: <hostname>" whose address
\* the hostname does not resolve to.
C9_StaleEntriesRemoved ==
    runs >= 1 =>
        \A i \in DOMAIN hba_file :
            (hba_file[i].kind = "entry" /\ hba_file[i].host \in TemplateHosts(hba_file))
                => hba_file[i].addr \in Range(run_dns[hba_file[i].host])

\* C10 -- update_hba is idempotent under unchanged DNS answers: a run that
\* follows another run and gets the same answers computes the lines the file
\* already holds, does not write the file and sends no SIGHUP; SIGHUP is sent
\* only by a run that wrote the file.
C10_Idempotent ==
    /\ (runs >= 2 /\ same_dns) =>
          /\ new_hba = orig_hba
          /\ hba_file = orig_hba
          /\ ~rewrote
          /\ ~sighup
    /\ sighup => rewrote
    /\ sighups <= rewrites

C10_Witness ==
    /\ runs = 2 /\ same_dns
    /\ rewrites = 1 /\ sighups = 1
    /\ \E i \in DOMAIN hba_file : hba_file[i].kind = "entry" /\ i > 1
          /\ hba_file[i - 1].kind = "template" /\ hba_file[i - 1].host = hba_file[i].host
    /\ Len(hba_file) > MaxLines

=============================================================================
